---- MODULE Spec2Model ----
(***************************************************************************)
(* Voice Detection API (src/main.py, the active "Phase 2" module, lines    *)
(* 530-719).  One POST /api/voice-detection request is followed from its   *)
(* arrival through body parsing, the handler detect_voice, decode_audio,   *)
(* analyze_audio_safely, cleanup and the serialisation of the response.    *)
(*                                                                         *)
(* Strings that the code inspects character by character (audioFormat,     *)
(* audioBase64) are sequences of one-character strings.  Numbers that are  *)
(* floats in the code are integers counted in hundredths (0.55 is 55).     *)
(***************************************************************************)
EXTENDS Integers, Sequences, FiniteSets, TLC

VARIABLES pc, req, resp, tempFile, ioFault, rmFault, calls, answer, result,
          st, files

\* st and files carry the requests handled side by side and the temporary
\* directory they share; the other variables follow a single request.
concVars == <<st, files>>

vars == <<pc, req, resp, tempFile, ioFault, rmFault, calls, answer, result, st, files>>

(***************************************************************************)
(* Bounds of the model.                                                    *)
(***************************************************************************)
MaxAudioLen == 4
MaxVaried == 1
MaxFenceVaried == 2
NumRequests == 2

(***************************************************************************)
(* CONFIG                                                                  *)
(***************************************************************************)
VALID_API_KEY == "123456"

SUPPORTED_LANGUAGES == {"Tamil", "English", "Hindi", "Malayalam", "Telugu"}

\* Optional[str] = Header(None): the value of x_api_key when the header is absent.
None == "<None>"

(***************************************************************************)
(* JSON values: a tag, a string payload and a numeric payload.             *)
(***************************************************************************)
J(t, s, n) == [t |-> t, s |-> s, n |-> n]
Absent == J("absent", "", 0)
Null == J("null", "", 0)
Str(s) == J("str", s, 0)
Num(n) == J("num", "", n)
NaN == J("nan", "", 0)
List == J("list", "", 0)

(***************************************************************************)
(* str.lower() on the characters used by the format samples.               *)
(***************************************************************************)
LowerChar(c) ==
    CASE c = "M" -> "m"
      [] c = "P" -> "p"
      [] c = "W" -> "w"
      [] c = "A" -> "a"
      [] c = "V" -> "v"
      [] OTHER -> c

Lower(s) == [i \in DOMAIN s |-> LowerChar(s[i])]

(***************************************************************************)
(* base64.b64decode(s) with the default validate=False.                    *)
(* Characters are classes: "A" a character of the base64 alphabet, "=" the *)
(* pad, "!" an ASCII character outside the alphabet, "U+E9" a non-ASCII    *)
(* character.                                                              *)
(***************************************************************************)
B64Alphabet == {"A"}
B64Pad == "="
NonAscii == {"U+E9"}
AudioChars == {"A", "=", "!", "U+E9"}

\* binascii.a2b_base64 in non-strict mode: characters outside the alphabet are
\* skipped, a pad that completes a quad ends the parse, an incomplete quad at
\* the end of the input is an error.  n counts the decoded bytes.
RECURSIVE a2b_base64(_, _, _, _, _)
a2b_base64(s, i, quad_pos, pads, n) ==
    IF i > Len(s)
    THEN [err |-> quad_pos # 0, n |-> n]
    ELSE IF s[i] = B64Pad
         THEN IF quad_pos >= 2 /\ quad_pos + pads + 1 >= 4
              THEN [err |-> FALSE, n |-> n]
              ELSE a2b_base64(s, i + 1, quad_pos,
                              IF quad_pos >= 2 THEN pads + 1 ELSE pads, n)
         ELSE IF s[i] \notin B64Alphabet
              THEN a2b_base64(s, i + 1, quad_pos, pads, n)
              ELSE a2b_base64(s, i + 1, (quad_pos + 1) % 4, 0,
                              IF quad_pos = 0 THEN n ELSE n + 1)

\* A str argument is first encoded as ASCII (ValueError on a non-ASCII character).
b64decode(s) ==
    IF \E i \in DOMAIN s : s[i] \in NonAscii
    THEN [err |-> TRUE, n |-> 0]
    ELSE a2b_base64(s, 1, 0, 0, 0)

(***************************************************************************)
(* Requests.  A body field is present with a string value, missing, or     *)
(* present with a value that is not a string (JSON null).                  *)
(***************************************************************************)
Field(t, v) == [t |-> t, v |-> v]

KeySamples == {VALID_API_KEY, "wrong", None}

LanguageSamples == SUPPORTED_LANGUAGES \cup {"French", "english"}

FormatSamples ==
    { <<"m", "p", "3">>, <<"M", "P", "3">>, <<"M", "p", "3">>, <<"m", "P", "3">>,
      <<"w", "a", "v">>, <<>> }

AudioSamples == UNION { [1..k -> AudioChars] : k \in 0..MaxAudioLen }

LanguageFields ==
    { Field("str", l) : l \in LanguageSamples } \cup { Field("missing", ""), Field("null", "") }

FormatFields ==
    { Field("str", f) : f \in FormatSamples } \cup { Field("missing", <<>>), Field("null", <<>>) }

AudioFields ==
    { Field("str", a) : a \in AudioSamples } \cup { Field("missing", <<>>), Field("null", <<>>) }

Requests ==
    [ x_api_key : KeySamples,
      language : LanguageFields,
      audioFormat : FormatFields,
      audioBase64 : AudioFields ]

NoRequest ==
    [ x_api_key |-> None, language |-> Field("missing", ""),
      audioFormat |-> Field("missing", <<>>), audioBase64 |-> Field("missing", <<>>) ]

(***************************************************************************)
(* Responses: a status code and a JSON body.                               *)
(***************************************************************************)
Response(code, body) == [code |-> code, body |-> body]

NoResponse == Response(0, [pending |-> TRUE])

\* raise HTTPException(status_code, detail) is rendered by the framework's
\* default handler as {"detail": detail}.
HTTPException(code, detail) == Response(code, [detail |-> detail])

\* The body of a request that does not fit VoiceDetectionRequest is answered
\* by the framework with 422 and a list of validation errors under "detail".
RequestValidationError == Response(422, [detail |-> "[request validation errors]"])

\* global_exception_handler
InternalServerError ==
    Response(500, [status |-> "error",
                   message |-> "Internal server error during voice analysis"])

\* Variant: the message of the 500 names the exception.
global_exception_handler_leaking(exc) ==
    Response(500, [status |-> "error", message |-> exc])

\* global_exception_handler answers every exception that leaves the handler.
global_exception_handler(exc) == InternalServerError

(***************************************************************************)
(* VoiceDetectionRequest: language, audioFormat, audioBase64 are required  *)
(* strings.                                                                *)
(***************************************************************************)
\* Variant: audioBase64 declared optional.
VoiceDetectionRequestOptionalAudio(r) ==
    /\ r.language.t = "str"
    /\ r.audioFormat.t = "str"
    /\ r.audioBase64.t \in {"str", "missing"}

VoiceDetectionRequest(r) ==
    /\ r.language.t = "str"
    /\ r.audioFormat.t = "str"
    /\ r.audioBase64.t = "str"

(***************************************************************************)
(* detect_voice, the three precondition checks in the order of the code.   *)
(***************************************************************************)
KeyOk(k) == k = VALID_API_KEY

\* Variant: membership decided without regard to letter case.
LanguageOkAnyCase(l) == l \in SUPPORTED_LANGUAGES \cup {"english"}

LanguageOk(l) == l \in SUPPORTED_LANGUAGES

\* Variant: the format compared without lower().
FormatOkExact(f) == f = <<"m", "p", "3">>

FormatOk(f) == Lower(f) = <<"m", "p", "3">>

\* Variant: the language is checked before the credential.
CheckPreconditionsLanguageFirst(r) ==
    IF ~LanguageOk(r.language.v)
    THEN HTTPException(422, "Unsupported language")
    ELSE IF ~KeyOk(r.x_api_key)
         THEN HTTPException(401, "Invalid API key")
         ELSE IF ~FormatOk(r.audioFormat.v)
              THEN HTTPException(422, "Only MP3 supported")
              ELSE NoResponse

\* Variant: the format is not checked.
CheckPreconditionsNoFormat(r) ==
    IF ~KeyOk(r.x_api_key)
    THEN HTTPException(401, "Invalid API key")
    ELSE IF ~LanguageOk(r.language.v)
         THEN HTTPException(422, "Unsupported language")
         ELSE NoResponse

CheckPreconditions(r) ==
    IF ~KeyOk(r.x_api_key)
    THEN HTTPException(401, "Invalid API key")
    ELSE IF ~LanguageOk(r.language.v)
         THEN HTTPException(422, "Unsupported language")
         ELSE IF ~FormatOk(r.audioFormat.v)
              THEN HTTPException(422, "Only MP3 supported")
              ELSE NoResponse

(***************************************************************************)
(* The external classifier (genai.upload_file, model.generate_content).    *)
(* Its answer is a raised error or a text.  A text is a sequence of tokens:*)
(* whitespace, the fence openers {fence}json and {fence} (three            *)
(* backquotes), other prose, and one                                       *)
(* JSON document.  A document is an object with the five fields of the     *)
(* prompt (each possibly absent), an array, a scalar, or not JSON at all.  *)
(***************************************************************************)
FieldNames == {"status", "language", "classification", "confidenceScore", "explanation"}

\* {fence} stands for three backquotes.
FencedExplanation == "Pitch is {fence}steady{fence}"

\* The example answer of the prompt, lines 640-646, for the requested language.
PromptExample(language) ==
    [ layout |-> "bare", kind |-> "object",
      status |-> Str("success"),
      language |-> Str(language),
      classification |-> Str("HUMAN"),
      confidenceScore |-> Num(82),
      explanation |-> Str("Natural pitch variation and breathing artifacts detected") ]

Dimensions == FieldNames \cup {"layout", "kind"}

Alternatives(dim) ==
    CASE dim = "layout" -> {"fenced_json", "fenced", "prose", "padded", "empty"}
      [] dim = "kind" -> {"array", "scalar", "invalid"}
      [] dim = "status" -> {Absent, Null, Str("error")}
      [] dim = "language" -> {Absent, Null, Str("French")}
      [] dim = "classification" ->
            {Absent, Null, List, Str("AI_GENERATED"), Str("human")}
      [] dim = "confidenceScore" ->
            {Absent, Null, NaN, Num(-1), Num(0), Num(100), Num(101),
             Str("0.82"), Str("1.5"), Str("high")}
      [] dim = "explanation" -> {Absent, Null, Str(FencedExplanation)}

\* The answers that differ from the example of the prompt in at most k dimensions.
RECURSIVE Varied(_, _)
Varied(k, language) ==
    IF k = 0
    THEN {PromptExample(language)}
    ELSE LET prev == Varied(k - 1, language)
         IN  prev \cup UNION { { [o EXCEPT ![dim] = v] :
                                    o \in prev, v \in Alternatives(dim) } :
                                  dim \in Dimensions }

Doc(o) ==
    [ kind |-> o.kind,
      f |-> [fn \in FieldNames |-> o[fn]] ]

Token(k, d) == [k |-> k, d |-> d]
NoDoc == [kind |-> "invalid", f |-> [fn \in FieldNames |-> Absent]]
Ws == Token("ws", NoDoc)
FenceJson == Token("fence_json", NoDoc)
Fence == Token("fence", NoDoc)
Prose == Token("prose", NoDoc)

Render(o) ==
    LET d == Token("doc", Doc(o))
    IN  CASE o.layout = "bare" -> <<d>>
          [] o.layout = "fenced_json" -> <<FenceJson, Ws, d, Ws, Fence>>
          [] o.layout = "fenced" -> <<Fence, Ws, d, Ws, Fence>>
          [] o.layout = "prose" -> <<Prose, Ws, d>>
          [] o.layout = "padded" -> <<Ws, d, Ws>>
          [] o.layout = "empty" -> <<>>

Raised == [kind |-> "raise", text |-> <<>>]
Text(t) == [kind |-> "text", text |-> t]
NoAnswer == [kind |-> "none", text |-> <<>>]

Outcomes(language) ==
    {Raised} \cup { Text(Render(o)) : o \in Varied(MaxVaried, language) }

(***************************************************************************)
(* analyze_audio_safely, lines 652-654: strip, remove fences, json.loads.  *)
(***************************************************************************)
RECURSIVE lstrip(_)
lstrip(t) == IF t # <<>> /\ Head(t).k = "ws" THEN lstrip(Tail(t)) ELSE t

RECURSIVE rstrip(_)
rstrip(t) ==
    IF t # <<>> /\ t[Len(t)].k = "ws" THEN rstrip(SubSeq(t, 1, Len(t) - 1)) ELSE t

strip(t) == rstrip(lstrip(t))

\* str.replace of {fence}json and of {fence} by "" on a string value.
ReplaceInString(s) ==
    IF s = FencedExplanation THEN "Pitch is steady" ELSE s

ReplaceInValue(j) == IF j.t = "str" THEN Str(ReplaceInString(j.s)) ELSE j

ReplaceInToken(tok) ==
    IF tok.k = "doc"
    THEN Token("doc", [kind |-> tok.d.kind,
                       f |-> [fn \in FieldNames |-> ReplaceInValue(tok.d.f[fn])]])
    ELSE tok

\* Variant: only the opener with the json tag is removed.
replace_fences_json_only(t) ==
    LET kept == SelectSeq(t, LAMBDA tok : tok.k # "fence_json")
    IN  [i \in DOMAIN kept |-> ReplaceInToken(kept[i])]

\* The replacement acts on the whole text: fence tokens disappear and the
\* same substrings disappear inside the document.
IsNotFence(tok) == tok.k \notin {"fence_json", "fence"}

replace_fences(t) ==
    LET kept == SelectSeq(t, IsNotFence)
    IN  [i \in DOMAIN kept |-> ReplaceInToken(kept[i])]

IsNotWs(tok) == tok.k # "ws"

\* json.loads: one JSON document, whitespace allowed around it.
json_loads(t) ==
    LET toks == SelectSeq(t, IsNotWs)
    IN  IF Len(toks) = 1 /\ toks[1].k = "doc" /\ toks[1].d.kind # "invalid"
        THEN [err |-> FALSE, data |-> toks[1].d]
        ELSE [err |-> TRUE, data |-> NoDoc]

(***************************************************************************)
(* analyze_audio_safely, lines 656-673: validation and fallback.           *)
(***************************************************************************)
\* float(str) on the sample strings.
FloatOfString(s) ==
    CASE s = "0.82" -> [err |-> FALSE, nan |-> FALSE, n |-> 82]
      [] s = "1.5" -> [err |-> FALSE, nan |-> FALSE, n |-> 150]
      [] OTHER -> [err |-> TRUE, nan |-> FALSE, n |-> 0]

\* float(x) of a JSON value: TypeError for None and lists, KeyError when absent.
Float(j) ==
    CASE j.t = "num" -> [err |-> FALSE, nan |-> FALSE, n |-> j.n]
      [] j.t = "nan" -> [err |-> FALSE, nan |-> TRUE, n |-> 0]
      [] j.t = "str" -> FloatOfString(j.s)
      [] OTHER -> [err |-> TRUE, nan |-> FALSE, n |-> 0]

\* Variant: the classification compared without regard to letter case.
ClassificationOkAnyCase(j) == j.t = "str" /\ j.s \in {"AI_GENERATED", "HUMAN", "human"}

\* data["classification"] not in {"AI_GENERATED", "HUMAN"}: KeyError when the
\* key is absent, TypeError for an unhashable value, ValueError otherwise.
ClassificationOk(j) == j.t = "str" /\ j.s \in {"AI_GENERATED", "HUMAN"}

\* Variant: the confidence converted but its range not checked.
ConfidenceOkUnchecked(j) == ~Float(j).err /\ ~Float(j).nan

\* 0.0 <= confidence <= 1.0, false for NaN.
ConfidenceOk(j) ==
    LET c == Float(j)
    IN  ~c.err /\ ~c.nan /\ 0 <= c.n /\ c.n <= 100

\* Lines 656-661 raise nothing.
AnswerValid(data) ==
    /\ data.kind = "object"
    /\ ClassificationOk(data.f["classification"])
    /\ ConfidenceOk(data.f["confidenceScore"])

\* Variant: the substitute result carries a fixed language.
FallbackResultFixedLanguage(language) ==
    [ status |-> Str("success"),
      language |-> Str("English"),
      classification |-> Str("HUMAN"),
      confidenceScore |-> Num(55),
      explanation |-> Str("Voice exhibits mixed natural and synthetic characteristics") ]

FallbackResult(language) ==
    [ status |-> Str("success"),
      language |-> Str(language),
      classification |-> Str("HUMAN"),
      confidenceScore |-> Num(55),
      explanation |-> Str("Voice exhibits mixed natural and synthetic characteristics") ]

NoResult == [fn \in FieldNames |-> Absent]

analyze_audio_safely(outcome, language) ==
    IF outcome.kind # "text"
    THEN FallbackResult(language)
    ELSE LET raw == strip(replace_fences(strip(outcome.text)))
             parsed == json_loads(raw)
         IN  IF parsed.err \/ ~AnswerValid(parsed.data)
             THEN FallbackResult(language)
             ELSE parsed.data.f

(***************************************************************************)
(* response_model=VoiceDetectionResponse: the returned dict is validated   *)
(* and serialised; a dict that does not fit raises inside the framework    *)
(* and reaches global_exception_handler.                                   *)
(***************************************************************************)
VoiceDetectionResponse(data) ==
    /\ data["status"].t = "str"
    /\ data["language"].t = "str"
    /\ data["classification"].t = "str"
    /\ ~Float(data["confidenceScore"]).err
    /\ ~Float(data["confidenceScore"]).nan
    /\ data["explanation"].t = "str"

Serialize(data) ==
    IF VoiceDetectionResponse(data)
    THEN Response(200, [ status |-> data["status"].s,
                         language |-> data["language"].s,
                         classification |-> data["classification"].s,
                         confidenceScore |-> Float(data["confidenceScore"]).n,
                         explanation |-> data["explanation"].s ])
    ELSE global_exception_handler("ResponseValidationError")

\* Variant: a failed answer sends the code back to the call.
AfterAnswerRetry(outcome) ==
    IF outcome.kind = "raise" THEN "decoded" ELSE "analyzed"

\* analyze_audio_safely returns after one answer, valid or not (no loop).
AfterAnswer(outcome) == "analyzed"

\* Variant: os.remove called without the try/except.
cleanup_unguarded(removeFails) == removeFails

\* cleanup, lines 676-680: TRUE when an exception leaves it.  The except
\* clause swallows the error of os.remove.
cleanup(removeFails) == FALSE

(***************************************************************************)
(* The request, step by step.                                              *)
(***************************************************************************)
\* The requests handled side by side, and the names a temporary file can take.
Procs == 1..NumRequests
Paths == 1..NumRequests

\* A request that has not arrived yet; path 0 is no temporary file.
IdleRequest ==
    [ pc |-> "idle", req |-> NoRequest, resp |-> NoResponse, path |-> 0,
      ioFault |-> FALSE, rmFault |-> FALSE, calls |-> 0,
      answer |-> NoAnswer, result |-> NoResult ]

ConcIdle ==
    /\ st = [p \in Procs |-> IdleRequest]
    /\ files = {}

Init ==
    /\ ConcIdle
    /\ pc = "idle"
    /\ req = NoRequest
    /\ resp = NoResponse
    /\ tempFile = "none"
    /\ ioFault = FALSE
    /\ rmFault = FALSE
    /\ calls = 0
    /\ answer = NoAnswer
    /\ result = NoResult

\* A request arrives.
Receive ==
    /\ pc = "idle"
    /\ \E r \in Requests : req' = r
    /\ pc' = "received"
    /\ UNCHANGED <<resp, tempFile, ioFault, rmFault, calls, answer, result>>
    /\ UNCHANGED concVars

\* body: VoiceDetectionRequest (line 693) is parsed before detect_voice runs.
ParseBody ==
    /\ pc = "received"
    /\ IF VoiceDetectionRequest(req)
       THEN pc' = "handler" /\ resp' = resp
       ELSE pc' = "done" /\ resp' = RequestValidationError
    /\ UNCHANGED <<req, tempFile, ioFault, rmFault, calls, answer, result>>
    /\ UNCHANGED concVars

\* detect_voice, lines 696-703.
Preconditions ==
    /\ pc = "handler"
    /\ LET r == CheckPreconditions(req)
       IN  IF r.code = 0
           THEN pc' = "checked" /\ resp' = resp
           ELSE pc' = "done" /\ resp' = r
    /\ UNCHANGED <<req, tempFile, ioFault, rmFault, calls, answer, result>>
    /\ UNCHANGED concVars

\* decode_audio, lines 607-616, called at line 705.  The write of the decoded
\* bytes may fail after the file has been created (ioFault records it); the
\* error then leaves detect_voice before its try block.
DecodeAudio ==
    /\ pc = "checked"
    /\ IF b64decode(req.audioBase64.v).err
       THEN /\ pc' = "done"
            /\ resp' = HTTPException(422, "Invalid Base64 audio")
            /\ UNCHANGED <<tempFile, ioFault>>
       ELSE /\ tempFile' = "exists"
            /\ \E written \in BOOLEAN :
                 /\ ioFault' = ~written
                 /\ IF written
                    THEN pc' = "decoded" /\ resp' = resp
                    ELSE pc' = "done" /\ resp' = global_exception_handler("OSError")
    /\ UNCHANGED <<req, rmFault, calls, answer, result>>
    /\ UNCHANGED concVars

\* analyze_audio_safely, lines 649-650: the file is uploaded and the model is
\* asked; the code passes no timeout and then waits for the answer.
CallClassifier ==
    /\ pc = "decoded"
    /\ calls' = calls + 1
    /\ pc' = "waiting"
    /\ UNCHANGED <<req, resp, tempFile, ioFault, rmFault, answer, result>>
    /\ UNCHANGED concVars

\* analyze_audio_safely, lines 619-673, called at line 708: the classifier
\* answers or raises, and the answer is validated or replaced.
Analyze ==
    /\ pc = "waiting"
    /\ \E o \in Outcomes(req.language.v) :
         /\ answer' = o
         /\ result' = analyze_audio_safely(o, req.language.v)
         /\ pc' = AfterAnswer(o)
    /\ UNCHANGED <<req, resp, tempFile, ioFault, rmFault, calls>>
    /\ UNCHANGED concVars

\* cleanup (lines 676-680) in the finally block, then the returned dict is
\* serialised through the response model.  os.remove may fail; the error is
\* swallowed.
Respond ==
    /\ pc = "analyzed"
    /\ \E removed \in BOOLEAN :
         /\ tempFile' = IF removed THEN "deleted" ELSE tempFile
         /\ rmFault' = ~removed
         /\ resp' = IF cleanup(~removed)
                    THEN global_exception_handler("OSError")
                    ELSE Serialize(result)
    /\ pc' = "done"
    /\ UNCHANGED <<req, ioFault, calls, answer, result>>
    /\ UNCHANGED concVars

\* The response has been sent; the objects of the request are dropped.
Complete ==
    /\ pc = "done"
    /\ pc' = "idle"
    /\ req' = NoRequest
    /\ resp' = NoResponse
    /\ tempFile' = "none"
    /\ ioFault' = FALSE
    /\ rmFault' = FALSE
    /\ calls' = 0
    /\ answer' = NoAnswer
    /\ result' = NoResult
    /\ UNCHANGED concVars

Next ==
    \/ Receive
    \/ ParseBody
    \/ Preconditions
    \/ DecodeAudio
    \/ CallClassifier
    \/ Analyze
    \/ Respond
    \/ Complete

Spec == Init /\ [][Next]_vars

(***************************************************************************)
(* The answer processing of analyze_audio_safely taken alone: a request    *)
(* that passed every check waits for the classifier, whose text answers    *)
(* differ from the example of the prompt in up to MaxFenceVaried places    *)
(* (so that a fenced answer can also carry a fence inside a value).        *)
(***************************************************************************)
FenceRequests ==
    { [ x_api_key |-> VALID_API_KEY,
        language |-> Field("str", l),
        audioFormat |-> Field("str", <<"m", "p", "3">>),
        audioBase64 |-> Field("str", <<>>) ] : l \in SUPPORTED_LANGUAGES }

FenceInit ==
    /\ ConcIdle
    /\ pc = "waiting"
    /\ req \in FenceRequests
    /\ resp = NoResponse
    /\ tempFile = "exists"
    /\ ioFault = FALSE
    /\ rmFault = FALSE
    /\ calls = 1
    /\ answer = NoAnswer
    /\ result = NoResult

FenceOutcomes(language) ==
    { Text(Render(o)) : o \in Varied(MaxFenceVaried, language) }

AnalyzeFenced ==
    /\ pc = "waiting"
    /\ \E o \in FenceOutcomes(req.language.v) :
         /\ answer' = o
         /\ result' = analyze_audio_safely(o, req.language.v)
         /\ pc' = AfterAnswer(o)
    /\ UNCHANGED <<req, resp, tempFile, ioFault, rmFault, calls>>
    /\ UNCHANGED concVars

FenceNext ==
    \/ AnalyzeFenced
    \/ Respond

FenceSpec == FenceInit /\ [][FenceNext]_vars

(***************************************************************************)
(* NumRequests requests handled side by side.  Each runs the steps of the  *)
(* single request above on its own locals (st[p]); the only thing they     *)
(* share is the temporary directory (files).  The configuration is         *)
(* read-only.  tempfile.NamedTemporaryFile creates a file under a name     *)
(* that does not exist at that moment.  The server may run the handler in  *)
(* several worker processes, so the steps of different requests can        *)
(* interleave in every order.                                              *)
(***************************************************************************)
ConcRequests ==
    { [ x_api_key |-> VALID_API_KEY, language |-> Field("str", "English"),
        audioFormat |-> Field("str", <<"m", "p", "3">>),
        audioBase64 |-> Field("str", <<>>) ],
      [ x_api_key |-> VALID_API_KEY, language |-> Field("str", "Tamil"),
        audioFormat |-> Field("str", <<"M", "P", "3">>),
        audioBase64 |-> Field("str", <<"A", "A", "=", "=">>) ],
      [ x_api_key |-> VALID_API_KEY, language |-> Field("str", "Hindi"),
        audioFormat |-> Field("str", <<"m", "p", "3">>),
        audioBase64 |-> Field("str", <<"A">>) ],
      [ x_api_key |-> "wrong", language |-> Field("str", "English"),
        audioFormat |-> Field("str", <<"m", "p", "3">>),
        audioBase64 |-> Field("str", <<>>) ],
      [ x_api_key |-> VALID_API_KEY, language |-> Field("str", "English"),
        audioFormat |-> Field("str", <<"m", "p", "3">>),
        audioBase64 |-> Field("missing", <<>>) ] }

ConcOutcomes(language) ==
    { Raised,
      Text(Render(PromptExample(language))),
      Text(Render([PromptExample(language) EXCEPT !.status = Absent])) }

ConcInit ==
    /\ ConcIdle
    /\ pc = "idle"
    /\ req = NoRequest
    /\ resp = NoResponse
    /\ tempFile = "none"
    /\ ioFault = FALSE
    /\ rmFault = FALSE
    /\ calls = 0
    /\ answer = NoAnswer
    /\ result = NoResult

seqVars == <<pc, req, resp, tempFile, ioFault, rmFault, calls, answer, result>>

ConcReceive(p) ==
    /\ st[p].pc = "idle"
    /\ \E r \in ConcRequests :
         st' = [st EXCEPT ![p] = [@ EXCEPT !.pc = "received", !.req = r]]
    /\ UNCHANGED files
    /\ UNCHANGED seqVars

ConcParseBody(p) ==
    /\ st[p].pc = "received"
    /\ st' = [st EXCEPT ![p] =
                IF VoiceDetectionRequest(@.req)
                THEN [@ EXCEPT !.pc = "handler"]
                ELSE [@ EXCEPT !.pc = "done", !.resp = RequestValidationError]]
    /\ UNCHANGED files
    /\ UNCHANGED seqVars

ConcPreconditions(p) ==
    /\ st[p].pc = "handler"
    /\ LET r == CheckPreconditions(st[p].req)
       IN  st' = [st EXCEPT ![p] =
                    IF r.code = 0
                    THEN [@ EXCEPT !.pc = "checked"]
                    ELSE [@ EXCEPT !.pc = "done", !.resp = r]]
    /\ UNCHANGED files
    /\ UNCHANGED seqVars

\* temp_path is a local of detect_voice: the name returned by decode_audio.
ConcDecodeAudio(p) ==
    /\ st[p].pc = "checked"
    /\ IF b64decode(st[p].req.audioBase64.v).err
       THEN /\ st' = [st EXCEPT ![p] =
                        [@ EXCEPT !.pc = "done",
                                  !.resp = HTTPException(422, "Invalid Base64 audio")]]
            /\ UNCHANGED files
       ELSE \E name \in Paths \ files :
              /\ files' = files \cup {name}
              /\ \E written \in BOOLEAN :
                   st' = [st EXCEPT ![p] =
                            IF written
                            THEN [@ EXCEPT !.pc = "decoded", !.path = name]
                            ELSE [@ EXCEPT !.pc = "done", !.path = name,
                                           !.ioFault = TRUE,
                                           !.resp = global_exception_handler("OSError")]]
    /\ UNCHANGED seqVars

ConcCallClassifier(p) ==
    /\ st[p].pc = "decoded"
    /\ st' = [st EXCEPT ![p] = [@ EXCEPT !.pc = "waiting", !.calls = @ + 1]]
    /\ UNCHANGED files
    /\ UNCHANGED seqVars

ConcAnalyze(p) ==
    /\ st[p].pc = "waiting"
    /\ \E o \in ConcOutcomes(st[p].req.language.v) :
         st' = [st EXCEPT ![p] =
                  [@ EXCEPT !.pc = AfterAnswer(o),
                            !.answer = o,
                            !.result = analyze_audio_safely(o, st[p].req.language.v)]]
    /\ UNCHANGED files
    /\ UNCHANGED seqVars

\* cleanup(temp_path): os.remove of the name this request was given.
ConcRespond(p) ==
    /\ st[p].pc = "analyzed"
    /\ \E removed \in BOOLEAN :
         /\ files' = IF removed THEN files \ {st[p].path} ELSE files
         /\ st' = [st EXCEPT ![p] =
                     [@ EXCEPT !.pc = "done",
                               !.rmFault = ~removed,
                               !.resp = IF cleanup(~removed)
                                        THEN global_exception_handler("OSError")
                                        ELSE Serialize(st[p].result)]]
    /\ UNCHANGED seqVars

ConcNext ==
    \E p \in Procs :
        \/ ConcReceive(p)
        \/ ConcParseBody(p)
        \/ ConcPreconditions(p)
        \/ ConcDecodeAudio(p)
        \/ ConcCallClassifier(p)
        \/ ConcAnalyze(p)
        \/ ConcRespond(p)

ConcSpec == ConcInit /\ [][ConcNext]_vars

\* The steps of the handler itself are always taken.  Nothing obliges the
\* classifier to answer, and the code sets no timeout on the wait of lines
\* 649-650, so Analyze carries no fairness; neither does the arrival of a
\* request.
LiveSpec ==
    /\ Spec
    /\ WF_vars(ParseBody)
    /\ WF_vars(Preconditions)
    /\ WF_vars(DecodeAudio)
    /\ WF_vars(CallClassifier)
    /\ WF_vars(Respond)
    /\ WF_vars(Complete)

(***************************************************************************)
(* Vocabulary of the properties, stated without the operators of the model.*)
(***************************************************************************)
Done == pc = "done"

CredentialValid == req.x_api_key = "123456"

BodyWellTyped ==
    /\ req.language.t = "str"
    /\ req.audioFormat.t = "str"
    /\ req.audioBase64.t = "str"

FiveLanguages == {"Tamil", "English", "Hindi", "Malayalam", "Telugu"}

LanguageSupported == req.language.t = "str" /\ req.language.v \in FiveLanguages

\* mp3 in every letter case.
Mp3AnyCase == { <<m, p, "3">> : m \in {"m", "M"}, p \in {"p", "P"} }

FormatIsMp3 == req.audioFormat.t = "str" /\ req.audioFormat.v \in Mp3AnyCase

\* RFC 4648: quads of alphabet characters, the last quad possibly ending in
\* one or two pads, nothing else.
WellFormedBase64(s) ==
    /\ Len(s) % 4 = 0
    /\ \A i \in DOMAIN s :
         \/ s[i] = "A"
         \/ s[i] = "=" /\ i >= Len(s) - 1 /\ \A j \in i..Len(s) : s[j] = "="

AudioWellFormed == req.audioBase64.t = "str" /\ WellFormedBase64(req.audioBase64.v)

IsHttpError(code, detail) ==
    /\ resp.code = code
    /\ DOMAIN resp.body = {"detail"}
    /\ resp.body.detail = detail

IsResult == resp.code = 200 /\ DOMAIN resp.body = FieldNames

\* The fixed substitute result for the requested language.
IsSubstitute ==
    /\ IsResult
    /\ resp.body.status = "success"
    /\ resp.body.language = req.language.v
    /\ resp.body.classification = "HUMAN"
    /\ resp.body.confidenceScore = 55
    /\ resp.body.explanation = "Voice exhibits mixed natural and synthetic characteristics"

\* What the classifier returned, read from its text: the JSON document once
\* the fence wrapper and surrounding whitespace are taken away.
Answered == answer.kind # "none"

AnswerTokens == SelectSeq(answer.text, LAMBDA tok : tok.k \notin {"ws", "fence_json", "fence"})

AnswerParses ==
    /\ answer.kind = "text"
    /\ Len(AnswerTokens) = 1
    /\ AnswerTokens[1].k = "doc"
    /\ AnswerTokens[1].d.kind # "invalid"

AnswerIsObject == AnswerParses /\ AnswerTokens[1].d.kind = "object"

AnswerField(fn) == AnswerTokens[1].d.f[fn]

BadClassification ==
    /\ AnswerIsObject
    /\ AnswerField("classification").t # "absent"
    /\ ~(AnswerField("classification").t = "str"
         /\ AnswerField("classification").s \in {"AI_GENERATED", "HUMAN"})

\* Unconvertible (null, a list, a non-numeric string) or outside [0.0, 1.0].
BadConfidence ==
    /\ AnswerIsObject
    /\ LET c == AnswerField("confidenceScore")
       IN  \/ c.t \in {"null", "list", "nan"}
           \/ c.t = "str" /\ c.s # "0.82"
           \/ c.t = "num" /\ (c.n < 0 \/ c.n > 100)

ClassifierStepFailed ==
    \/ answer.kind = "raise"
    \/ answer.kind = "text" /\ ~AnswerParses
    \/ BadClassification
    \/ BadConfidence

SomeFieldMissing ==
    AnswerIsObject /\ \E fn \in FieldNames : AnswerField(fn).t = "absent"

(***************************************************************************)
(* C1: a request whose x-api-key is missing or wrong is answered 401,      *)
(* whatever its body (valid, bad language or format, bad base64, fields    *)
(* missing or ill-typed).                                                  *)
(***************************************************************************)
C1_BadCredentialAlways401 ==
    (Done /\ ~CredentialValid) => resp.code = 401

C3_MissingFieldGivesSubstitute ==
    (Done /\ Answered /\ SomeFieldMissing) => IsSubstitute

(***************************************************************************)
(* C4: every 200 response carries a classification that is exactly         *)
(* AI_GENERATED or HUMAN and a confidenceScore within [0.0, 1.0].          *)
(***************************************************************************)
C4_ResultInContract ==
    resp.code = 200 =>
        /\ "classification" \in DOMAIN resp.body
        /\ "confidenceScore" \in DOMAIN resp.body
        /\ resp.body.classification \in {"AI_GENERATED", "HUMAN"}
        /\ 0 <= resp.body.confidenceScore
        /\ resp.body.confidenceScore <= 100

C4_Witness ==
    /\ Done
    /\ resp.code = 200
    /\ AnswerIsObject
    /\ AnswerField("classification") = Str("AI_GENERATED")
    /\ resp.body.classification = "AI_GENERATED"

(***************************************************************************)
(* C5: a request with the valid credential, a supported language, mp3 in   *)
(* any letter case and decodable base64 receives 200 with all five fields  *)
(* and status = success, whatever the classifier does.                     *)
(***************************************************************************)
C5_ValidRequestAlwaysSuccess ==
    (Done /\ CredentialValid /\ LanguageSupported /\ FormatIsMp3
          /\ AudioWellFormed /\ Answered)
        => (IsResult /\ resp.body.status = "success")

(***************************************************************************)
(* C6: only the first violated precondition is reported, in the order      *)
(* credential, language, format: a bad credential gives the 401 whatever   *)
(* the language and format are, a bad language with a good credential      *)
(* gives the unsupported-language 422 whatever the format is.              *)
(***************************************************************************)
C6_FirstViolationOnly ==
    (Done /\ BodyWellTyped) =>
        /\ ~CredentialValid => IsHttpError(401, "Invalid API key")
        /\ (CredentialValid /\ ~LanguageSupported)
              => IsHttpError(422, "Unsupported language")

C6_Witness ==
    /\ Done
    /\ BodyWellTyped
    /\ ~CredentialValid
    /\ ~LanguageSupported
    /\ ~FormatIsMp3
    /\ IsHttpError(401, "Invalid API key")

(***************************************************************************)
(* C7: a request with a valid credential whose language is not one of      *)
(* Tamil, English, Hindi, Malayalam, Telugu is answered 422.               *)
(***************************************************************************)
C7_UnsupportedLanguage422 ==
    (Done /\ CredentialValid /\ ~LanguageSupported) => resp.code = 422

C7_Witness ==
    /\ Done
    /\ CredentialValid
    /\ BodyWellTyped
    /\ req.language.v = "english"
    /\ FormatIsMp3
    /\ AudioWellFormed
    /\ resp.code = 422

(***************************************************************************)
(* C8, as stated: with a valid credential and a supported language (and a  *)
(* body that fits the request schema) the response is 422 exactly when     *)
(* audioFormat differs from mp3 in every letter case.                      *)
(***************************************************************************)
C8_422ExactlyWhenNotMp3 ==
    (Done /\ CredentialValid /\ LanguageSupported /\ BodyWellTyped)
        => (resp.code = 422 <=> ~FormatIsMp3)

(***************************************************************************)
(* C8, amended: with a valid credential and a supported language (and a    *)
(* body that fits the request schema) the response is the 422 of the       *)
(* format check, "Only MP3 supported", exactly when audioFormat differs    *)
(* from mp3 in every letter case; every letter-case variant of mp3 passes  *)
(* the format check.                                                       *)
(***************************************************************************)
C8_FormatRejectedExactlyWhenNotMp3 ==
    (Done /\ CredentialValid /\ LanguageSupported /\ BodyWellTyped)
        => (IsHttpError(422, "Only MP3 supported") <=> ~FormatIsMp3)

C8_Witness ==
    /\ Done
    /\ CredentialValid
    /\ LanguageSupported
    /\ BodyWellTyped
    /\ req.audioFormat.v = <<"M", "p", "3">>
    /\ resp.code = 200

(***************************************************************************)
(* C9: a request that passes the credential, language and format checks    *)
(* but whose audioBase64 is not well-formed base64 is answered 422 (no     *)
(* fault of the file system intervening), and the external classifier is   *)
(* not called.                                                             *)
(***************************************************************************)
C9_MalformedBase64Gives422 ==
    (Done /\ CredentialValid /\ LanguageSupported /\ FormatIsMp3
          /\ req.audioBase64.t = "str" /\ ~AudioWellFormed /\ ~ioFault)
        => (resp.code = 422 /\ calls = 0)

(***************************************************************************)
(* C10: every error response (401, 422, 500) has the body shape            *)
(* {status: "error", message}.                                             *)
(***************************************************************************)
C10_UniformErrorShape ==
    (Done /\ resp.code \in {401, 422, 500}) =>
        /\ DOMAIN resp.body = {"status", "message"}
        /\ resp.body.status = "error"

(***************************************************************************)
(* C11: on every exit path of a request (the deletion itself succeeding)   *)
(* any temporary file created for the request has been deleted by the time *)
(* the response is produced.                                               *)
(***************************************************************************)
C11_TempFileReleased ==
    (Done /\ ~rmFault) => tempFile # "exists"

(***************************************************************************)
(* C12: every request that reaches the external classifier eventually      *)
(* receives a response, even if the classifier never answers.              *)
(***************************************************************************)
C12_CallEventuallyAnswered ==
    (pc = "waiting") ~> (pc = "done")

(***************************************************************************)
(* C13: for a request rejected with 401 or 422 no call to the external     *)
(* classifier has been made and no temporary file has been created; the    *)
(* external call happens only after the credential, language, format and   *)
(* decoding checks have passed.                                            *)
(***************************************************************************)
C13_NoWorkBeforeChecks ==
    /\ (Done /\ resp.code \in {401, 422}) => (calls = 0 /\ tempFile = "none")
    /\ calls > 0 =>
          /\ CredentialValid
          /\ LanguageSupported
          /\ FormatIsMp3
          /\ req.audioBase64.t = "str"
          /\ ~b64decode(req.audioBase64.v).err
          /\ tempFile # "none"

C13_Witness ==
    /\ Done
    /\ CredentialValid
    /\ LanguageSupported
    /\ FormatIsMp3
    /\ IsHttpError(422, "Invalid Base64 audio")
    /\ calls = 0
    /\ tempFile = "none"

(***************************************************************************)
(* C14: within one request the external classifier is invoked at most     *)
(* once; after a failed call or a failed validation there is no retry.     *)
(***************************************************************************)
C14_AtMostOneCall ==
    /\ calls <= 1
    /\ (pc \in {"analyzed", "done"} /\ Answered) => calls = 1

C14_Witness ==
    /\ Done
    /\ answer.kind = "raise"
    /\ IsSubstitute
    /\ calls = 1

(***************************************************************************)
(* C15: every result body returned with 200 has status = "success", also   *)
(* when the JSON answer of the model carries another status value next to  *)
(* a valid classification and confidence.                                  *)
(***************************************************************************)
C15_StatusAlwaysSuccess ==
    (Done /\ resp.code = 200) =>
        ("status" \in DOMAIN resp.body /\ resp.body.status = "success")

\* An answer that passes the validation of the spec: an object with the
\* five fields, string-valued status, language and explanation, a
\* classification among the two values and a confidence within [0.0, 1.0].
AnswerPassesValidation ==
    /\ AnswerIsObject
    /\ \A fn \in {"status", "language", "explanation"} : AnswerField(fn).t = "str"
    /\ AnswerField("classification").t = "str"
    /\ AnswerField("classification").s \in {"AI_GENERATED", "HUMAN"}
    /\ LET c == AnswerField("confidenceScore")
       IN  \/ c.t = "num" /\ 0 <= c.n /\ c.n <= 100
           \/ c.t = "str" /\ c.s = "0.82"

\* The confidence of the answer as a float, in hundredths.
AnswerConfidence ==
    LET c == AnswerField("confidenceScore")
    IN  IF c.t = "num" THEN c.n ELSE 82

(***************************************************************************)
(* C16: when the answer of the model passes validation, the response       *)
(* carries its status, language, classification and explanation unchanged  *)
(* and its confidenceScore converted to float; the fallback result is      *)
(* never substituted for it.                                               *)
(***************************************************************************)
C16_ValidAnswerUnchanged ==
    (Done /\ AnswerPassesValidation) =>
        /\ IsResult
        /\ resp.body.status = AnswerField("status").s
        /\ resp.body.language = AnswerField("language").s
        /\ resp.body.classification = AnswerField("classification").s
        /\ resp.body.explanation = AnswerField("explanation").s
        /\ resp.body.confidenceScore = AnswerConfidence

(***************************************************************************)
(* C17: every 500 response carries one fixed generic message, the same     *)
(* for every internal fault.                                               *)
(***************************************************************************)
C17_Generic500 ==
    resp.code = 500 =>
        /\ DOMAIN resp.body = {"status", "message"}
        /\ resp.body.status = "error"
        /\ resp.body.message = "Internal server error during voice analysis"

C17_Witness ==
    /\ Done
    /\ resp.code = 500
    /\ Answered
    /\ SomeFieldMissing
    /\ resp.body.message = "Internal server error during voice analysis"

(***************************************************************************)
(* C18: a failure to delete the temporary file never changes the           *)
(* response: the caller receives the status code and body that the         *)
(* returned result gives when the deletion succeeds.                       *)
(***************************************************************************)
C18_CleanupFailureInvisible ==
    (Done /\ rmFault) =>
        /\ resp.code = Serialize(result).code
        /\ resp.code = 200 => resp.body = Serialize(result).body

C18_Witness ==
    /\ Done
    /\ rmFault
    /\ tempFile = "exists"
    /\ resp.code = 200
    /\ AnswerPassesValidation

(***************************************************************************)
(* C19: a request with the valid credential whose body lacks any of        *)
(* language, audioFormat, audioBase64 is rejected with 422, no temporary   *)
(* file is created and no external call is made.                           *)
(***************************************************************************)
SomeBodyFieldMissing ==
    \/ req.language.t = "missing"
    \/ req.audioFormat.t = "missing"
    \/ req.audioBase64.t = "missing"

C19_MissingBodyField422 ==
    (Done /\ CredentialValid /\ SomeBodyFieldMissing) =>
        (resp.code = 422 /\ tempFile = "none" /\ calls = 0)

C19_Witness ==
    /\ Done
    /\ CredentialValid
    /\ LanguageSupported
    /\ FormatIsMp3
    /\ req.audioBase64.t = "missing"
    /\ resp.code = 422
    /\ calls = 0

\* The answer is a JSON object inside a fence wrapper, and nothing else.
AnswerIsFencedObject ==
    /\ answer.kind = "text"
    /\ Len(answer.text) = 5
    /\ answer.text[1].k \in {"fence_json", "fence"}
    /\ answer.text[2].k = "ws"
    /\ answer.text[3].k = "doc"
    /\ answer.text[3].d.kind = "object"
    /\ answer.text[4].k = "ws"
    /\ answer.text[5].k = "fence"

\* The same JSON object returned bare.
BareAnswer == [kind |-> "text", text |-> <<answer.text[3]>>]

\* The fenced answer gives the result that the bare object gives.
FencedSameAsBare ==
    (pc \in {"analyzed", "done"} /\ AnswerIsFencedObject) =>
        result = analyze_audio_safely(BareAnswer, req.language.v)

\* Only the wrapper is removed: a fenced object that passes validation
\* reaches the result with the values it was sent with.
OnlyWrapperRemoved ==
    (pc \in {"analyzed", "done"} /\ AnswerIsFencedObject /\ AnswerPassesValidation) =>
        \A fn \in {"status", "language", "classification", "explanation"} :
            result[fn] = AnswerField(fn)

(***************************************************************************)
(* C20: fence stripping removes only a fence wrapper around the answer: a  *)
(* JSON object wrapped in a fence yields the same result as the same       *)
(* object returned bare, for every object, also one whose string values    *)
(* contain backquote fences.                                               *)
(***************************************************************************)
C20_FenceStrippingOnlyUnwraps ==
    FencedSameAsBare /\ OnlyWrapperRemoved

(***************************************************************************)
(* C22, as stated: in every 200 response the language field equals the     *)
(* language sent in the request, for the fallback result and for the       *)
(* validated answer of the model alike, whatever language the answer       *)
(* carries.                                                                *)
(***************************************************************************)
C22_LanguageEchoesRequest ==
    (Done /\ resp.code = 200) =>
        ("language" \in DOMAIN resp.body /\ resp.body.language = req.language.v)

(***************************************************************************)
(* C22, amended: in a 200 response the language field equals the language  *)
(* of the request when the fallback result is returned; when the validated *)
(* answer of the model is returned it is the language value of that        *)
(* answer (as parsed, after the fence removal), which may differ from the  *)
(* language of the request.                                                *)
(***************************************************************************)
C22_LanguageFromReturnedResult ==
    (Done /\ resp.code = 200) =>
        /\ "language" \in DOMAIN resp.body
        /\ ~AnswerPassesValidation => resp.body.language = req.language.v
        /\ AnswerPassesValidation =>
              resp.body.language = ReplaceInString(AnswerField("language").s)

C22_Witness ==
    /\ Done
    /\ resp.code = 200
    /\ AnswerPassesValidation
    /\ AnswerField("language") = Str("French")
    /\ req.language.v = "Tamil"
    /\ resp.body.language = "French"

\* The request holds a staged file that it has not yet tried to remove.
UsesFile(p) == st[p].pc \in {"decoded", "waiting", "analyzed"}

AllCompleted == \A p \in Procs : st[p].pc = "done"

\* Each in-flight request stages its audio in a file of its own.
DistinctFiles ==
    \A p, q \in Procs :
        (p # q /\ UsesFile(p) /\ UsesFile(q)) => st[p].path # st[q].path

\* No cleanup has deleted a file that a request is still using.
FileInUseExists ==
    \A p \in Procs : UsesFile(p) => st[p].path \in files

\* The response that the inputs and the classifier answer of one request
\* give when the request is handled alone.
ResponseAlone(r) ==
    IF ~VoiceDetectionRequest(r.req)
    THEN RequestValidationError
    ELSE IF CheckPreconditions(r.req).code # 0
         THEN CheckPreconditions(r.req)
         ELSE IF b64decode(r.req.audioBase64.v).err
              THEN HTTPException(422, "Invalid Base64 audio")
              ELSE IF r.ioFault
                   THEN InternalServerError
                   ELSE Serialize(analyze_audio_safely(r.answer, r.req.language.v))

\* Each response is a function of the request's own inputs, its own
\* classifier answer and the faults of its own file operations.
OwnResponseOnly ==
    \A p \in Procs :
        st[p].pc = "done" => st[p].resp = ResponseAlone(st[p])

\* Once every request has completed (no deletion having failed) no
\* temporary file remains.
NoFileRemains ==
    (AllCompleted /\ \A p \in Procs : ~st[p].rmFault) => files = {}

(***************************************************************************)
(* C21: under any interleaving of concurrently handled requests, each      *)
(* request stages its audio in a temporary file distinct from that of      *)
(* every other in-flight request, no cleanup deletes a file another        *)
(* request still uses, each response depends only on the inputs and the    *)
(* classifier answer of its own request, and once all requests have        *)
(* completed no temporary file remains.                                    *)
(***************************************************************************)
C21_ConcurrentRequestsIsolated ==
    /\ DistinctFiles
    /\ FileInUseExists
    /\ OwnResponseOnly
    /\ NoFileRemains

====
